---- MODULE Spec2Model ----
(***************************************************************************)
(* GeoVision (src/main.js): a browser map viewer with geocoding search,    *)
(* a location-analysis panel and a keyword-matched chat assistant.         *)
(*                                                                         *)
(* Representation.                                                         *)
(*  - A JavaScript string is a sequence of one-character strings.          *)
(*    null/undefined where a string is expected is NullStr.                *)
(*  - A coordinate is an integer count of 1/Scale degrees (four decimal    *)
(*    places, the precision analyzeLocation prints with toFixed(4)).       *)
(*    Comparisons against the thresholds of identifyHazards are exact in   *)
(*    this representation; IEEE rounding of Math.abs(lat - c) < 2 exactly  *)
(*    at a threshold is not modelled.                                      *)
(*  - Math.random() is an input of the operator that draws it.             *)
(***************************************************************************)
EXTENDS Integers, Sequences, FiniteSets, TLC

VARIABLES
    markers,            \* main.js:8   let markers = []
    currentLocation,    \* main.js:12  let currentLocation = null
    chatMessages,       \* main.js:13  let chatMessages = []
    infoPanel,          \* innerHTML of #infoPanelContent
    loadingOverlay,     \* #loadingOverlay has class 'active'
    alerts,             \* alert() boxes shown so far, in order
    chatDom,            \* children of #chatMessages
    modalDom,           \* children of #modalChatMessages
    modalActive,        \* #aiModal has class 'active'
    inflight,           \* fetches awaiting their response
    readers,            \* FileReaders awaiting onload (isModal of each)
    timers,             \* pending image-analysis timeouts (isModal of each), in firing order
    microtasks,         \* continuations queued behind the running task
    nextId,             \* identity of the next fetch issued
    log,                \* history: selections issued and responses processed, in order
    last,               \* history: the handler that ran last
    arg,                \* input of a function applied in isolation
    ret                 \* its result

appVars == <<markers, currentLocation, chatMessages, infoPanel, loadingOverlay,
             alerts, chatDom, modalDom, modalActive, inflight, readers, timers,
             microtasks, nextId, log, last>>
vars == <<markers, currentLocation, chatMessages, infoPanel, loadingOverlay,
          alerts, chatDom, modalDom, modalActive, inflight, readers, timers,
          microtasks, nextId, log, last, arg, ret>>

-----------------------------------------------------------------------------
(* Bounds of the model *)

\* Coordinates are drawn within Margin units of every threshold of identifyHazards.
Margin == 1

\* Drawn messages and place names have at most MaxWords words.
MaxWords == 2

\* At most MaxEvents user events that have an effect (map clicks, searches,
\* chat sends, image uploads) happen; their responses and timers always run.
MaxEvents == 2

-----------------------------------------------------------------------------
(* Values *)

Null == [null |-> TRUE]
NullStr == <<"null">>

\* The object { lat, lon, placeName } (main.js:167).
Location(lat, lon, placeName) == [lat |-> lat, lon |-> lon, placeName |-> placeName]

\* JavaScript truthiness of a string-or-null value.
Truthy(s) == s # NullStr /\ s # <<>>

Scale == 10000
Deg(d, frac) == d * Scale + frac

Abs(x) == IF x < 0 THEN -x ELSE x
Max(a, b) == IF a > b THEN a ELSE b
Min(a, b) == IF a < b THEN a ELSE b

-----------------------------------------------------------------------------
(* Strings *)

UpperCase == <<"A","B","C","D","E","F","G","H","I","J","K","L","M",
               "N","O","P","Q","R","S","T","U","V","W","X","Y","Z">>
LowerCase == <<"a","b","c","d","e","f","g","h","i","j","k","l","m",
               "n","o","p","q","r","s","t","u","v","w","x","y","z">>

\* String.prototype.toLowerCase on the characters the model uses.
ToLowerChar(c) ==
    IF \E k \in DOMAIN UpperCase : UpperCase[k] = c
    THEN LowerCase[CHOOSE k \in DOMAIN UpperCase : UpperCase[k] = c]
    ELSE c
toLowerCase(s) == [i \in DOMAIN s |-> ToLowerChar(s[i])]

\* String.prototype.includes: k occurs in s as a contiguous substring.
includes(s, k) ==
    \E i \in 1..(Len(s) - Len(k) + 1) : SubSeq(s, i, i + Len(k) - 1) = k

\* String.prototype.trim
WhiteSpace == {" ", "\t", "\n"}
RECURSIVE TrimStart(_)
TrimStart(s) == IF s # <<>> /\ Head(s) \in WhiteSpace THEN TrimStart(Tail(s)) ELSE s
RECURSIVE TrimEnd(_)
TrimEnd(s) ==
    IF s # <<>> /\ s[Len(s)] \in WhiteSpace THEN TrimEnd(SubSeq(s, 1, Len(s) - 1)) ELSE s
trim_None(s) == s
trim(s) == TrimEnd(TrimStart(s))

\* Strings of at most n words of W, joined by single spaces.
RECURSIVE Phrases(_, _)
Phrases(W, n) ==
    IF n = 0 THEN {<<>>}
    ELSE LET shorter == Phrases(W, n - 1)
         IN  shorter \cup W \cup {p \o <<" ">> \o w : p \in shorter \ {<<>>}, w \in W}

(* Literals *)

s_population == <<"p", "o", "p", "u", "l", "a", "t", "i", "o", "n">>
s_people == <<"p", "e", "o", "p", "l", "e">>
s_ppl == <<"p", "p", "l">>
s_hazard == <<"h", "a", "z", "a", "r", "d">>
s_risk == <<"r", "i", "s", "k">>
s_danger == <<"d", "a", "n", "g", "e", "r">>
s_safe == <<"s", "a", "f", "e">>
s_solution == <<"s", "o", "l", "u", "t", "i", "o", "n">>
s_fix == <<"f", "i", "x">>
s_improve == <<"i", "m", "p", "r", "o", "v", "e">>
s_help == <<"h", "e", "l", "p">>
s_weather == <<"w", "e", "a", "t", "h", "e", "r">>
s_forecast == <<"f", "o", "r", "e", "c", "a", "s", "t">>
s_rain == <<"r", "a", "i", "n">>
s_typhoon == <<"t", "y", "p", "h", "o", "o", "n">>
s_volcano == <<"v", "o", "l", "c", "a", "n", "o">>
s_eruption == <<"e", "r", "u", "p", "t", "i", "o", "n">>
s_mayon == <<"m", "a", "y", "o", "n">>
s_taal == <<"t", "a", "a", "l">>
s_earthquake == <<"e", "a", "r", "t", "h", "q", "u", "a", "k", "e">>
s_seismic == <<"s", "e", "i", "s", "m", "i", "c">>
s_quake == <<"q", "u", "a", "k", "e">>
s_this_area == <<"t", "h", "i", "s", " ", "a", "r", "e", "a">>
s_this_location == <<"t", "h", "i", "s", " ", "l", "o", "c", "a", "t", "i", "o", "n">>
s_Unknown_Location == <<"U", "n", "k", "n", "o", "w", "n", " ", "L", "o", "c", "a", "t", "i", "o", "n">>
s_metro_manila == <<"m", "e", "t", "r", "o", " ", "m", "a", "n", "i", "l", "a">>
s_manila == <<"m", "a", "n", "i", "l", "a">>
s_quezon_city == <<"q", "u", "e", "z", "o", "n", " ", "c", "i", "t", "y">>
s_cebu == <<"c", "e", "b", "u">>
s_davao == <<"d", "a", "v", "a", "o">>
s_camarines == <<"c", "a", "m", "a", "r", "i", "n", "e", "s">>
w_Hello == <<"H", "e", "l", "l", "o">>
w_Population == <<"P", "o", "p", "u", "l", "a", "t", "i", "o", "n">>
w_UNSAFE == <<"U", "N", "S", "A", "F", "E">>
w_Train == <<"T", "r", "a", "i", "n">>
w_Mayon == <<"M", "a", "y", "o", "n">>
w_prefix == <<"p", "r", "e", "f", "i", "x">>
n_Metro == <<"M", "e", "t", "r", "o">>
n_Manila == <<"M", "a", "n", "i", "l", "a">>
n_MANILA == <<"M", "A", "N", "I", "L", "A">>
n_Quezon == <<"Q", "u", "e", "z", "o", "n">>
n_City == <<"C", "i", "t", "y">>
n_Cebu == <<"C", "e", "b", "u">>
n_Davao == <<"D", "a", "v", "a", "o">>
n_Camarines == <<"C", "a", "m", "a", "r", "i", "n", "e", "s">>
n_Baguio == <<"B", "a", "g", "u", "i", "o">>
g_14_5995 == <<"1", "4", ".", "5", "9", "9", "5">>
g_120_9842 == <<"1", "2", "0", ".", "9", "8", "4", "2">>
g_10_3157 == <<"1", "0", ".", "3", "1", "5", "7">>
g_123_8854 == <<"1", "2", "3", ".", "8", "8", "5", "4">>
q_Manila == <<" ", "M", "a", "n", "i", "l", "a">>
n_Davao_City == <<"D", "a", "v", "a", "o", " ", "C", "i", "t", "y">>
n_Cebu_City == <<"C", "e", "b", "u", " ", "C", "i", "t", "y">>
m_ppl == <<" ", "p", "p", "l", " ">>
m_blank == <<" ", "\t">>
n_Metro_Manila == <<"M", "e", "t", "r", "o", " ", "M", "a", "n", "i", "l", "a">>

-----------------------------------------------------------------------------
(* Numbers as text *)

DigitChars == <<"0", "1", "2", "3", "4", "5", "6", "7", "8", "9">>
IsDigit(c) == \E d \in DOMAIN DigitChars : DigitChars[d] = c
DigitVal(c) == (CHOOSE d \in DOMAIN DigitChars : DigitChars[d] = c) - 1

RECURSIVE ParseDigits(_, _)
ParseDigits(s, acc) ==
    IF s = <<>> THEN acc ELSE ParseDigits(Tail(s), acc * 10 + DigitVal(Head(s)))

RECURSIVE Pow10(_)
Pow10(n) == IF n = 0 THEN 1 ELSE 10 * Pow10(n - 1)

\* The longest prefix of s made of digits.
RECURSIVE DigitPrefix(_)
DigitPrefix(s) ==
    IF s # <<>> /\ IsDigit(Head(s)) THEN <<Head(s)>> \o DigitPrefix(Tail(s)) ELSE <<>>

\* parseFloat on a decimal numeral (sign, digits, optional fraction), as the
\* geocoder sends latitudes and longitudes; the value in 1/Scale degrees.
\* Fraction digits beyond the fourth are dropped by the representation.
parseFloat(s) ==
    LET neg == s # <<>> /\ Head(s) = "-"
        body == IF neg THEN Tail(s) ELSE s
        whole == DigitPrefix(body)
        rest == SubSeq(body, Len(whole) + 1, Len(body))
        fracAll == IF rest # <<>> /\ Head(rest) = "." THEN DigitPrefix(Tail(rest)) ELSE <<>>
        frac == SubSeq(fracAll, 1, Min(4, Len(fracAll)))
        magnitude == ParseDigits(whole, 0) * Scale + ParseDigits(frac, 0) * Pow10(4 - Len(frac))
    IN  IF neg THEN 0 - magnitude ELSE magnitude

RECURSIVE ToDigits(_)
ToDigits(n) ==
    IF n < 10 THEN <<DigitChars[n + 1]>> ELSE ToDigits(n \div 10) \o <<DigitChars[(n % 10) + 1]>>

\* Number.prototype.toFixed(4) of a coordinate.
toFixed4(x) ==
    LET a == Abs(x)
        f == a % Scale
    IN  (IF x < 0 THEN <<"-">> ELSE <<>>) \o ToDigits(a \div Scale) \o <<".">>
        \o <<DigitChars[(f \div 1000) + 1], DigitChars[((f \div 100) % 10) + 1],
             DigitChars[((f \div 10) % 10) + 1], DigitChars[(f % 10) + 1]>>

-----------------------------------------------------------------------------
(* identifyHazards(lat, lon), main.js:263-302.  isCoastal is the outcome of  *)
(* Math.random() > 0.5.                                                     *)

Hazard(n, l) == [name |-> n, level |-> l]

identifyHazards_TsunamiLast(lat, lon, isCoastal) ==
    LET quake == IF Abs(lat - Deg(14, 5995)) < Deg(2, 0) \/ Abs(lat - Deg(10, 3157)) < Deg(2, 0)
                 THEN <<Hazard("Earthquake", "high")>>
                 ELSE <<Hazard("Earthquake", "moderate")>>
        typhoon == IF lon > Deg(121, 0) /\ lon < Deg(126, 0)
                   THEN <<Hazard("Typhoon", "high")>>
                   ELSE <<Hazard("Typhoon", "moderate")>>
        flood == IF lat < Deg(15, 0) /\ lat > Deg(10, 0)
                 THEN <<Hazard("Flooding", "moderate")>>
                 ELSE <<Hazard("Flooding", "low")>>
        tsunami == IF isCoastal THEN <<Hazard("Tsunami", "moderate")>> ELSE <<>>
        landslide == IF lat > Deg(16, 0) \/ (lat > Deg(6, 0) /\ lat < Deg(10, 0))
                     THEN <<Hazard("Landslide", "moderate")>>
                     ELSE <<>>
    IN  quake \o typhoon \o flood \o landslide \o tsunami

identifyHazards_WideTyphoon(lat, lon, isCoastal) ==
    LET quake == IF Abs(lat - Deg(14, 5995)) < Deg(2, 0) \/ Abs(lat - Deg(10, 3157)) < Deg(2, 0)
                 THEN <<Hazard("Earthquake", "high")>>
                 ELSE <<Hazard("Earthquake", "moderate")>>
        typhoon == IF lon > Deg(120, 0) /\ lon < Deg(126, 0)
                   THEN <<Hazard("Typhoon", "high")>>
                   ELSE <<Hazard("Typhoon", "moderate")>>
        flood == IF lat < Deg(15, 0) /\ lat > Deg(10, 0)
                 THEN <<Hazard("Flooding", "moderate")>>
                 ELSE <<Hazard("Flooding", "low")>>
        tsunami == IF isCoastal THEN <<Hazard("Tsunami", "moderate")>> ELSE <<>>
        landslide == IF lat > Deg(16, 0) \/ (lat > Deg(6, 0) /\ lat < Deg(10, 0))
                     THEN <<Hazard("Landslide", "moderate")>>
                     ELSE <<>>
    IN  quake \o typhoon \o flood \o tsunami \o landslide

identifyHazards_WideFlood(lat, lon, isCoastal) ==
    LET quake == IF Abs(lat - Deg(14, 5995)) < Deg(2, 0) \/ Abs(lat - Deg(10, 3157)) < Deg(2, 0)
                 THEN <<Hazard("Earthquake", "high")>>
                 ELSE <<Hazard("Earthquake", "moderate")>>
        typhoon == IF lon > Deg(121, 0) /\ lon < Deg(126, 0)
                   THEN <<Hazard("Typhoon", "high")>>
                   ELSE <<Hazard("Typhoon", "moderate")>>
        flood == IF lat < Deg(15, 0) /\ lat > Deg(6, 0)
                 THEN <<Hazard("Flooding", "moderate")>>
                 ELSE <<Hazard("Flooding", "low")>>
        tsunami == IF isCoastal THEN <<Hazard("Tsunami", "moderate")>> ELSE <<>>
        landslide == IF lat > Deg(16, 0) \/ (lat > Deg(6, 0) /\ lat < Deg(10, 0))
                     THEN <<Hazard("Landslide", "moderate")>>
                     ELSE <<>>
    IN  quake \o typhoon \o flood \o tsunami \o landslide

identifyHazards(lat, lon, isCoastal) ==
    LET quake == IF Abs(lat - Deg(14, 5995)) < Deg(2, 0) \/ Abs(lat - Deg(10, 3157)) < Deg(2, 0)
                 THEN <<Hazard("Earthquake", "high")>>
                 ELSE <<Hazard("Earthquake", "moderate")>>
        typhoon == IF lon > Deg(121, 0) /\ lon < Deg(126, 0)
                   THEN <<Hazard("Typhoon", "high")>>
                   ELSE <<Hazard("Typhoon", "moderate")>>
        flood == IF lat < Deg(15, 0) /\ lat > Deg(10, 0)
                 THEN <<Hazard("Flooding", "moderate")>>
                 ELSE <<Hazard("Flooding", "low")>>
        tsunami == IF isCoastal THEN <<Hazard("Tsunami", "moderate")>> ELSE <<>>
        landslide == IF lat > Deg(16, 0) \/ (lat > Deg(6, 0) /\ lat < Deg(10, 0))
                     THEN <<Hazard("Landslide", "moderate")>>
                     ELSE <<>>
    IN  quake \o typhoon \o flood \o tsunami \o landslide

\* hazards.filter(h => h.level === level).length
CountLevel(hazards, level) ==
    Cardinality({i \in DOMAIN hazards : hazards[i].level = level})

-----------------------------------------------------------------------------
(* calculateResilience(lat, lon), main.js:641-652.  It calls identifyHazards *)
(* itself, so it takes that call's random outcome.                          *)

calculateResilience_PenaltyOnly(lat, lon, isCoastal) ==
    LET hazards == identifyHazards(lat, lon, isCoastal)
        highRiskCount == CountLevel(hazards, "high")
        moderateRiskCount == CountLevel(hazards, "moderate")
    IN  (highRiskCount * 20) + (moderateRiskCount * 10)

calculateResilience(lat, lon, isCoastal) ==
    LET hazards == identifyHazards(lat, lon, isCoastal)
        highRiskCount == CountLevel(hazards, "high")
        moderateRiskCount == CountLevel(hazards, "moderate")
        score == 100 - (highRiskCount * 20) - (moderateRiskCount * 10)
    IN  Max(30, Min(100, score))

-----------------------------------------------------------------------------
(* estimatePopulation(placeName), main.js:625-639.  r is the value of       *)
(* Math.floor(Math.random() * estimates.length).                            *)

estimates == <<"50K-100K", "100K-250K", "250K-500K", "20K-50K">>
RandomIndex == 0..(Len(estimates) - 1)

estimatePopulation_CaseSensitive(placeName, r) ==
    IF ~Truthy(placeName) THEN "Unknown"
    ELSE LET lower == placeName
         IN  IF includes(lower, s_metro_manila) \/ includes(lower, s_manila) THEN "~13.5M"
             ELSE IF includes(lower, s_quezon_city) THEN "~2.9M"
             ELSE IF includes(lower, s_cebu) THEN "~950K"
             ELSE IF includes(lower, s_davao) THEN "~1.6M"
             ELSE IF includes(lower, s_camarines) THEN "~580K"
             ELSE estimates[r + 1]

estimatePopulation_NoNullTest(placeName, r) ==
    LET lower == toLowerCase(placeName)
    IN  IF includes(lower, s_metro_manila) \/ includes(lower, s_manila) THEN "~13.5M"
        ELSE IF includes(lower, s_quezon_city) THEN "~2.9M"
        ELSE IF includes(lower, s_cebu) THEN "~950K"
        ELSE IF includes(lower, s_davao) THEN "~1.6M"
        ELSE IF includes(lower, s_camarines) THEN "~580K"
        ELSE estimates[r + 1]

estimatePopulation(placeName, r) ==
    IF ~Truthy(placeName) THEN "Unknown"
    ELSE LET lower == toLowerCase(placeName)
         IN  IF includes(lower, s_metro_manila) \/ includes(lower, s_manila) THEN "~13.5M"
             ELSE IF includes(lower, s_quezon_city) THEN "~2.9M"
             ELSE IF includes(lower, s_cebu) THEN "~950K"
             ELSE IF includes(lower, s_davao) THEN "~1.6M"
             ELSE IF includes(lower, s_camarines) THEN "~580K"
             ELSE estimates[r + 1]

-----------------------------------------------------------------------------
(* generateAIResponse(userMessage), main.js:502-551.  loc is the value of   *)
(* currentLocation it reads; isCoastal and r are the random draws of the    *)
(* identifyHazards and estimatePopulation calls it may make.  A reply is    *)
(* the template returned and the values substituted into it.                *)

Or(s, default) == IF Truthy(s) THEN s ELSE default

generateAIResponse_HazardFirst(userMessage, loc, isCoastal, r) ==
    LET lowerMessage == toLowerCase(userMessage)
    IN  IF includes(lowerMessage, s_hazard) \/ includes(lowerMessage, s_risk)
           \/ includes(lowerMessage, s_danger) \/ includes(lowerMessage, s_safe)
        THEN IF loc # Null
             THEN [template |-> "hazards",
                   hazardList |-> identifyHazards(loc.lat, loc.lon, isCoastal)]
             ELSE [template |-> "hazards: select a location"]
        ELSE IF includes(lowerMessage, s_population) \/ includes(lowerMessage, s_people)
           \/ includes(lowerMessage, s_ppl)
        THEN IF loc # Null
             THEN [template |-> "population",
                   place |-> Or(loc.placeName, s_this_area),
                   estimate |-> estimatePopulation(loc.placeName, r)]
             ELSE [template |-> "population: click a location first"]
        ELSE IF includes(lowerMessage, s_solution) \/ includes(lowerMessage, s_fix)
           \/ includes(lowerMessage, s_improve) \/ includes(lowerMessage, s_help)
        THEN IF loc # Null
             THEN [template |-> "solutions", place |-> Or(loc.placeName, s_this_location)]
             ELSE [template |-> "solutions: select a location"]
        ELSE IF includes(lowerMessage, s_weather) \/ includes(lowerMessage, s_forecast)
           \/ includes(lowerMessage, s_rain) \/ includes(lowerMessage, s_typhoon)
        THEN [template |-> "weather"]
        ELSE IF includes(lowerMessage, s_volcano) \/ includes(lowerMessage, s_eruption)
           \/ includes(lowerMessage, s_mayon) \/ includes(lowerMessage, s_taal)
        THEN [template |-> "volcano"]
        ELSE IF includes(lowerMessage, s_earthquake) \/ includes(lowerMessage, s_seismic)
           \/ includes(lowerMessage, s_quake)
        THEN [template |-> "earthquake"]
        ELSE [template |-> "default"]

generateAIResponse(userMessage, loc, isCoastal, r) ==
    LET lowerMessage == toLowerCase(userMessage)
    IN  IF includes(lowerMessage, s_population) \/ includes(lowerMessage, s_people)
           \/ includes(lowerMessage, s_ppl)
        THEN IF loc # Null
             THEN [template |-> "population",
                   place |-> Or(loc.placeName, s_this_area),
                   estimate |-> estimatePopulation(loc.placeName, r)]
             ELSE [template |-> "population: click a location first"]
        ELSE IF includes(lowerMessage, s_hazard) \/ includes(lowerMessage, s_risk)
           \/ includes(lowerMessage, s_danger) \/ includes(lowerMessage, s_safe)
        THEN IF loc # Null
             THEN [template |-> "hazards",
                   hazardList |-> identifyHazards(loc.lat, loc.lon, isCoastal)]
             ELSE [template |-> "hazards: select a location"]
        ELSE IF includes(lowerMessage, s_solution) \/ includes(lowerMessage, s_fix)
           \/ includes(lowerMessage, s_improve) \/ includes(lowerMessage, s_help)
        THEN IF loc # Null
             THEN [template |-> "solutions", place |-> Or(loc.placeName, s_this_location)]
             ELSE [template |-> "solutions: select a location"]
        ELSE IF includes(lowerMessage, s_weather) \/ includes(lowerMessage, s_forecast)
           \/ includes(lowerMessage, s_rain) \/ includes(lowerMessage, s_typhoon)
        THEN [template |-> "weather"]
        ELSE IF includes(lowerMessage, s_volcano) \/ includes(lowerMessage, s_eruption)
           \/ includes(lowerMessage, s_mayon) \/ includes(lowerMessage, s_taal)
        THEN [template |-> "volcano"]
        ELSE IF includes(lowerMessage, s_earthquake) \/ includes(lowerMessage, s_seismic)
           \/ includes(lowerMessage, s_quake)
        THEN [template |-> "earthquake"]
        ELSE [template |-> "default"]

-----------------------------------------------------------------------------
(* Coordinates the functions are applied to: every threshold of             *)
(* identifyHazards and its neighbours, the reference point of the hazard    *)
(* zone table, and the ends of the coordinate range.                        *)

LatThresholds ==
    { Deg(6, 0), Deg(10, 0), Deg(15, 0), Deg(16, 0),
      Deg(14, 5995) - Deg(2, 0), Deg(14, 5995), Deg(14, 5995) + Deg(2, 0),
      Deg(10, 3157) - Deg(2, 0), Deg(10, 3157), Deg(10, 3157) + Deg(2, 0),
      Deg(-90, 0), Deg(0, 0), Deg(90, 0) }
LonThresholds ==
    { Deg(121, 0), Deg(126, 0), Deg(120, 9842), Deg(123, 8854), Deg(-180, 0), Deg(180, 0) }

Lats == { t + d : t \in LatThresholds, d \in (0 - Margin)..Margin }
Lons == { t + d : t \in LonThresholds, d \in (0 - Margin)..Margin }

-----------------------------------------------------------------------------
(* State after construction (main.js:7-13; the DOM as index.html ships it). *)

NoCall == [fn |-> "none"]

InitApp ==
    /\ markers = <<>>
    /\ currentLocation = Null
    /\ chatMessages = <<>>
    /\ infoPanel = [kind |-> "placeholder"]
    /\ loadingOverlay = FALSE
    /\ alerts = <<>>
    /\ chatDom = <<>>
    /\ modalDom = <<>>
    /\ modalActive = FALSE
    /\ inflight = {}
    /\ readers = <<>>
    /\ timers = <<>>
    /\ microtasks = <<>>
    /\ nextId = 1
    /\ log = <<>>
    /\ last = [op |-> "DOMContentLoaded", input |-> <<>>]

-----------------------------------------------------------------------------
(* analyzeLocation(lat, lon, placeName), main.js:197-258: the locationData  *)
(* the panel markup is rendered from.  r, coastalList and coastalScore are  *)
(* the draws of its estimatePopulation, identifyHazards and                 *)
(* calculateResilience calls.                                               *)

LocationData(lat, lon, placeName, population, hazards, resilience) ==
    [name |-> placeName,
     coordinates |-> [lat |-> toFixed4(lat), lon |-> toFixed4(lon)],
     population |-> population,
     hazards |-> hazards,
     infrastructure |-> "Moderate",
     resilience |-> resilience]

analyzeLocation(lat, lon, placeName, r, coastalList, coastalScore) ==
    LocationData(lat, lon, placeName,
                 estimatePopulation(placeName, r),
                 identifyHazards(lat, lon, coastalList),
                 calculateResilience(lat, lon, coastalScore))

\* Every analyzeLocation(lat, lon, placeName, r, c1, c2) over the draws r, c1, c2.
Analyses(lat, lon, placeName) ==
    LET populations == {estimatePopulation(placeName, r) : r \in RandomIndex}
        hazardLists == {identifyHazards(lat, lon, c) : c \in BOOLEAN}
        scores == {calculateResilience(lat, lon, c) : c \in BOOLEAN}
    IN  {LocationData(lat, lon, placeName, p, h, x) :
            p \in populations, h \in hazardLists, x \in scores}

-----------------------------------------------------------------------------
(* The environment: what the user does and what the geocoder answers.       *)

Marker(lat, lon, popup) == [lat |-> lat, lon |-> lon, popup |-> popup]

\* Text of #searchInput when a search is triggered.
SearchInputs == { m_blank, q_Manila }

\* e.latlng of a map click.
ClickPoints == { [lat |-> Deg(7, 731), lon |-> Deg(125, 6128)],
                 [lat |-> Deg(16, 5000), lon |-> Deg(121, 5000)] }

\* Text of #chatInput / #modalChatInput when a send is triggered.
ChatInputs == { <<>>, m_blank, m_ppl, s_risk \o <<" ">> \o w_Population, w_Hello }

ManilaResult == [lat |-> g_14_5995, lon |-> g_120_9842, display_name |-> n_Metro_Manila]
CebuResult == [lat |-> g_10_3157, lon |-> g_123_8854, display_name |-> n_Cebu_City]

\* Outcomes of `await fetch(...)` followed by `await response.json()`: one of
\* the two throws (the network fails, or the body is not JSON), or the parsed
\* answer.  Every candidate of a search answer carries lat, lon and
\* display_name.
SearchOutcomes ==
    { [kind |-> "throws"],
      [kind |-> "json", results |-> <<>>],
      [kind |-> "json", results |-> <<ManilaResult>>],
      [kind |-> "json", results |-> <<CebuResult, ManilaResult>>] }
ReverseOutcomes ==
    { [kind |-> "throws"],
      [kind |-> "json", display_name |-> n_Davao_City],
      [kind |-> "json", display_name |-> NullStr] }

NotFoundAlert == "Location not found. Please try a different search term."
SearchErrorAlert == "Error performing search. Please try again."

\* The handler that ran and the input it read.
Ran(op, input) == [op |-> op, input |-> input]

\* Array.prototype.push and Node.appendChild
push_Front(array, x) == <<x>> \o array
push(array, x) == Append(array, x)
appendChild(container, node) == Append(container, node)

\* User events that had an effect so far: fetches issued, chat sends, uploads.
Events ==
    (nextId - 1)
    + Cardinality({i \in DOMAIN chatMessages : chatMessages[i].type = "user"})
    + Len(readers) + Len(timers)
    + Cardinality({i \in DOMAIN chatMessages :
                      chatMessages[i].content = [template |-> "image analysis"]})

RemoveAt(q, i) == SubSeq(q, 1, i - 1) \o SubSeq(q, i + 1, Len(q))

\* A task (event handler, fetch or timer callback) starts only once the
\* microtask queue has drained.
TaskMayRun_Always == TRUE
TaskMayRun == microtasks = <<>>

-----------------------------------------------------------------------------
(* loadLocationInfo, main.js:166-192 *)

\* main.js:167, currentLocation = { lat, lon, placeName }; cur is the value replaced.
NewCurrentLocation_KeepFirst(cur, lat, lon, placeName) ==
    IF cur # Null THEN cur ELSE Location(lat, lon, placeName)

NewCurrentLocation_Merge(cur, lat, lon, placeName) ==
    Location(lat, lon, IF cur # Null /\ ~Truthy(placeName) THEN cur.placeName ELSE placeName)

NewCurrentLocation(cur, lat, lon, placeName) == Location(lat, lon, placeName)

-----------------------------------------------------------------------------
(* performSearch, main.js:111-145 *)

\* main.js:136-141: the message shown when the search yields no location.
SearchAlert_OneMessage(outcome) == SearchErrorAlert

SearchAlert(outcome) ==
    IF outcome.kind = "json" THEN NotFoundAlert ELSE SearchErrorAlert

\* Up to the first await: the query is read and the fetch is issued.
PerformSearch ==
    \E input \in SearchInputs :
        LET query == trim(input)
        IN  /\ TaskMayRun
            /\ last' = Ran("performSearch", input)
            /\ IF query = <<>>
               THEN UNCHANGED <<loadingOverlay, inflight, nextId, log>>
               ELSE /\ Events < MaxEvents
                    /\ loadingOverlay' = TRUE
                    /\ inflight' = inflight \cup {[id |-> nextId, kind |-> "search", query |-> query]}
                    /\ nextId' = nextId + 1
                    /\ log' = Append(log, [ev |-> "search", id |-> nextId])
            /\ UNCHANGED <<markers, currentLocation, chatMessages, infoPanel, alerts,
                           chatDom, modalDom, modalActive, readers, timers, microtasks,
                           arg, ret>>

\* The rest of performSearch, run when the fetch settles.  With a result it
\* calls loadLocationInfo(lat, lon, display_name), which, having a place
\* name, makes no request: it sets currentLocation and the panel, the panel's
\* analysis arriving in the microtask that follows.
SearchResponse ==
    \E req \in inflight, outcome \in SearchOutcomes :
        /\ TaskMayRun
        /\ req.kind = "search"
        /\ inflight' = inflight \ {req}
        /\ loadingOverlay' = FALSE
        /\ last' = Ran("performSearch: response", <<>>)
        /\ log' = Append(log, [ev |-> "searchResponse", id |-> req.id, outcome |-> outcome])
        /\ IF outcome.kind = "json" /\ Len(outcome.results) > 0
           THEN LET location == outcome.results[1]
                    lat == parseFloat(location.lat)
                    lon == parseFloat(location.lon)
                IN  /\ markers' = push(markers, Marker(lat, lon, location.display_name))
                    /\ currentLocation' =
                          NewCurrentLocation(currentLocation, lat, lon, location.display_name)
                    /\ \E analysis \in Analyses(lat, lon, location.display_name) :
                          infoPanel' = [kind |-> "analysis", report |-> analysis]
                    /\ UNCHANGED alerts
           ELSE /\ alerts' = push(alerts, SearchAlert(outcome))
                /\ UNCHANGED <<markers, currentLocation, infoPanel>>
        /\ UNCHANGED <<chatMessages, chatDom, modalDom, modalActive, readers, timers,
                       microtasks, nextId, arg, ret>>

-----------------------------------------------------------------------------
(* handleMapClick, main.js:150-161, with clearMarkers, main.js:620-623, and *)
(* loadLocationInfo(lat, lon) up to its reverse fetch.                      *)

HandleMapClick ==
    \E e \in ClickPoints :
        /\ TaskMayRun
        /\ Events < MaxEvents
        /\ markers' = push(<<>>, Marker(e.lat, e.lon, NullStr))
        /\ currentLocation' = NewCurrentLocation(currentLocation, e.lat, e.lon, NullStr)
        /\ infoPanel' = [kind |-> "loading"]
        /\ inflight' = inflight \cup {[id |-> nextId, kind |-> "reverse", lat |-> e.lat, lon |-> e.lon]}
        /\ nextId' = nextId + 1
        /\ log' = Append(log, [ev |-> "click", id |-> nextId, lat |-> e.lat, lon |-> e.lon])
        /\ last' = Ran("handleMapClick", <<>>)
        /\ UNCHANGED <<chatMessages, loadingOverlay, alerts, chatDom, modalDom, modalActive,
                       readers, timers, microtasks, arg, ret>>

\* The rest of loadLocationInfo, run when the reverse fetch settles.
ReverseResponse ==
    \E req \in inflight, outcome \in ReverseOutcomes :
        /\ TaskMayRun
        /\ req.kind = "reverse"
        /\ inflight' = inflight \ {req}
        /\ IF outcome.kind = "json"
           THEN LET placeName == Or(outcome.display_name, s_Unknown_Location)
                IN  \E analysis \in Analyses(req.lat, req.lon, placeName) :
                       infoPanel' = [kind |-> "analysis", report |-> analysis]
           ELSE infoPanel' = [kind |-> "error"]
        /\ log' = Append(log, [ev |-> "reverseResponse", id |-> req.id, outcome |-> outcome])
        /\ last' = Ran("loadLocationInfo: response", <<>>)
        /\ UNCHANGED <<markers, currentLocation, chatMessages, loadingOverlay, alerts,
                       chatDom, modalDom, modalActive, readers, timers, microtasks,
                       nextId, arg, ret>>

-----------------------------------------------------------------------------
(* Chat *)

Entry(type, content) == [type |-> type, content |-> content]

\* sendChatMessage(isModal), main.js:458-474, up to its await.  The call of
\* generateAIResponse runs to its return before the await suspends, so it
\* reads currentLocation now; what follows the await is queued as a microtask.
\* addChatMessage, main.js:479-497, appends the node to the container and
\* pushes the entry onto chatMessages.
SendChatMessage ==
    \E isModal \in BOOLEAN, input \in ChatInputs :
        LET message == trim(input)
        IN  /\ TaskMayRun
            /\ last' = Ran("sendChatMessage", input)
            /\ IF message = <<>>
               THEN UNCHANGED <<chatMessages, chatDom, modalDom, microtasks>>
               ELSE /\ Events < MaxEvents
                    /\ chatMessages' = push(chatMessages, Entry("user", [text |-> message]))
                    /\ IF isModal
                       THEN /\ modalDom' = appendChild(modalDom, Entry("user", [text |-> message]))
                            /\ UNCHANGED chatDom
                       ELSE /\ chatDom' = appendChild(chatDom, Entry("user", [text |-> message]))
                            /\ UNCHANGED modalDom
                    /\ \E isCoastal \in BOOLEAN, r \in RandomIndex :
                          microtasks' = Append(microtasks,
                              [isModal |-> isModal,
                               aiResponse |-> generateAIResponse(message, currentLocation, isCoastal, r)])
            /\ UNCHANGED <<markers, currentLocation, infoPanel, loadingOverlay, alerts,
                           modalActive, inflight, readers, timers, nextId, log, arg, ret>>

\* sendChatMessage after its await: addChatMessage('ai', aiResponse, isModal).
SendChatMessageResume ==
    /\ microtasks # <<>>
    /\ LET k == Head(microtasks)
       IN  /\ chatMessages' = push(chatMessages, Entry("ai", k.aiResponse))
           /\ IF k.isModal
              THEN modalDom' = appendChild(modalDom, Entry("ai", k.aiResponse)) /\ UNCHANGED chatDom
              ELSE chatDom' = appendChild(chatDom, Entry("ai", k.aiResponse)) /\ UNCHANGED modalDom
    /\ microtasks' = Tail(microtasks)
    /\ last' = Ran("sendChatMessage: resumed", <<>>)
    /\ UNCHANGED <<markers, currentLocation, infoPanel, loadingOverlay, alerts,
                   modalActive, inflight, readers, timers, nextId, log, arg, ret>>

\* handleImageUpload(event, isModal), main.js:556-585, up to readAsDataURL.
HandleImageUpload ==
    \E isModal \in BOOLEAN, hasFile \in BOOLEAN :
        /\ TaskMayRun
        /\ last' = Ran("handleImageUpload", IF hasFile THEN <<"file">> ELSE <<>>)
        /\ IF ~hasFile
           THEN UNCHANGED readers
           ELSE /\ Events < MaxEvents
                /\ readers' = Append(readers, isModal)
        /\ UNCHANGED <<markers, currentLocation, chatMessages, infoPanel,
                       loadingOverlay, alerts, chatDom, modalDom, modalActive,
                       inflight, timers, microtasks, nextId, log, arg, ret>>

\* reader.onload, main.js:561-583: the image node goes into the container
\* only, and the analysis is scheduled.
ReaderOnload ==
    \E i \in DOMAIN readers :
        LET isModal == readers[i]
            node == Entry("user", [image |-> TRUE])
        IN  /\ TaskMayRun
            /\ IF isModal
               THEN modalDom' = appendChild(modalDom, node) /\ UNCHANGED chatDom
               ELSE chatDom' = appendChild(chatDom, node) /\ UNCHANGED modalDom
            /\ readers' = RemoveAt(readers, i)
            /\ timers' = Append(timers, isModal)
            /\ last' = Ran("reader.onload", <<>>)
            /\ UNCHANGED <<markers, currentLocation, chatMessages, infoPanel,
                           loadingOverlay, alerts, modalActive, inflight, microtasks,
                           nextId, log, arg, ret>>

\* The setTimeout callback, main.js:579-582.  The delays are equal, so the
\* callbacks run in the order they were scheduled.
ImageAnalysisTimeout ==
    /\ TaskMayRun
    /\ timers # <<>>
    /\ LET isModal == Head(timers)
           added == Entry("ai", [template |-> "image analysis"])
       IN  /\ chatMessages' = push(chatMessages, added)
           /\ IF isModal
              THEN modalDom' = appendChild(modalDom, added) /\ UNCHANGED chatDom
              ELSE chatDom' = appendChild(chatDom, added) /\ UNCHANGED modalDom
    /\ timers' = Tail(timers)
    /\ last' = Ran("setTimeout: image analysis", <<>>)
    /\ UNCHANGED <<markers, currentLocation, infoPanel, loadingOverlay, alerts,
                   modalActive, inflight, readers, microtasks, nextId, log, arg, ret>>

\* openFullScreenChat, main.js:590-598
OpenFullScreenChat ==
    /\ TaskMayRun
    /\ modalDom' = chatDom
    /\ modalActive' = TRUE
    /\ last' = Ran("openFullScreenChat", <<>>)
    /\ UNCHANGED <<markers, currentLocation, chatMessages, infoPanel, loadingOverlay,
                   alerts, chatDom, inflight, readers, timers, microtasks, nextId, log,
                   arg, ret>>

\* closeFullScreenChat, main.js:600-606
CloseFullScreenChat ==
    /\ TaskMayRun
    /\ chatDom' = modalDom
    /\ modalActive' = FALSE
    /\ last' = Ran("closeFullScreenChat", <<>>)
    /\ UNCHANGED <<markers, currentLocation, chatMessages, infoPanel, loadingOverlay,
                   alerts, modalDom, inflight, readers, timers, microtasks, nextId, log,
                   arg, ret>>

Init ==
    /\ InitApp
    /\ arg = NoCall
    /\ ret = NoCall

Next ==
    \/ PerformSearch
    \/ SearchResponse
    \/ HandleMapClick
    \/ ReverseResponse
    \/ SendChatMessage
    \/ SendChatMessageResume
    \/ HandleImageUpload
    \/ ReaderOnload
    \/ ImageAnalysisTimeout
    \/ OpenFullScreenChat
    \/ CloseFullScreenChat

Spec == Init /\ [][Next]_vars

\* The map side alone: selections and their geocoding responses.
NextMap ==
    \/ PerformSearch
    \/ SearchResponse
    \/ HandleMapClick
    \/ ReverseResponse

SpecMap == Init /\ [][NextMap]_vars

\* The chat side alone: sends, uploads, their callbacks and the modal.
NextChat ==
    \/ SendChatMessage
    \/ SendChatMessageResume
    \/ HandleImageUpload
    \/ ReaderOnload
    \/ ImageAnalysisTimeout
    \/ OpenFullScreenChat
    \/ CloseFullScreenChat

SpecChat == Init /\ [][NextChat]_vars

\* Selecting locations and asking the assistant about them.
NextAssist ==
    \/ PerformSearch
    \/ SearchResponse
    \/ HandleMapClick
    \/ ReverseResponse
    \/ SendChatMessage
    \/ SendChatMessageResume

SpecAssist == Init /\ [][NextAssist]_vars

-----------------------------------------------------------------------------
(* The hazard functions applied in isolation to a drawn coordinate.         *)

InitHazard ==
    /\ InitApp
    /\ arg \in [fn : {"coordinate"}, lat : Lats, lon : Lons]
    /\ ret = NoCall

CallIdentifyHazards ==
    /\ \E isCoastal \in BOOLEAN :
          ret' = [fn |-> "identifyHazards",
                  value |-> identifyHazards(arg.lat, arg.lon, isCoastal)]
    /\ UNCHANGED <<appVars, arg>>

CallCalculateResilience ==
    /\ \E isCoastal \in BOOLEAN :
          ret' = [fn |-> "calculateResilience",
                  value |-> calculateResilience(arg.lat, arg.lon, isCoastal)]
    /\ UNCHANGED <<appVars, arg>>

\* analyzeLocation on the coordinate, with the name of a place of fixed
\* population; its two hazard draws are independent.
CallAnalyzeLocation ==
    /\ \E r \in RandomIndex, coastalList \in BOOLEAN, coastalScore \in BOOLEAN :
          ret' = [fn |-> "analyzeLocation",
                  value |-> analyzeLocation(arg.lat, arg.lon, n_Metro_Manila,
                                            r, coastalList, coastalScore)]
    /\ UNCHANGED <<appVars, arg>>

NextHazard == CallIdentifyHazards \/ CallCalculateResilience \/ CallAnalyzeLocation

SpecHazard == InitHazard /\ [][NextHazard]_vars

-----------------------------------------------------------------------------
(* The text functions applied in isolation to drawn strings.                *)

\* Every trigger word alone, and phrases of the core words.
TriggerWords ==
    { s_population, s_people, s_ppl, s_hazard, s_risk, s_danger, s_safe,
      s_solution, s_fix, s_improve, s_help, s_weather, s_forecast, s_rain,
      s_typhoon, s_volcano, s_eruption, s_mayon, s_taal, s_earthquake,
      s_seismic, s_quake }
CoreWords ==
    { w_Population, s_risk, w_UNSAFE, s_help, w_Train, w_Mayon, s_quake, w_Hello }
Messages == TriggerWords \cup {w_prefix} \cup Phrases(CoreWords, MaxWords)

NameWords ==
    { n_Metro, n_Manila, n_MANILA, n_Quezon, n_City, n_Cebu, n_Davao, n_Camarines, n_Baguio }
PlaceNames == {NullStr} \cup Phrases(NameWords, MaxWords)

Contexts ==
    { Null,
      Location(Deg(14, 5995), Deg(120, 9842), n_Metro_Manila),
      Location(Deg(16, 4023), Deg(120, 5960), n_Baguio),
      Location(Deg(10, 3157), Deg(123, 8854), NullStr) }

InitResponder ==
    /\ InitApp
    /\ arg \in [fn : {"message"}, userMessage : Messages, currentLocation : Contexts]
               \cup [fn : {"placeName"}, placeName : PlaceNames]
    /\ ret = NoCall

CallGenerateAIResponse ==
    /\ arg.fn = "message"
    /\ \E isCoastal \in BOOLEAN, r \in RandomIndex :
          ret' = [fn |-> "generateAIResponse",
                  value |-> generateAIResponse(arg.userMessage, arg.currentLocation, isCoastal, r)]
    /\ UNCHANGED <<appVars, arg>>

CallEstimatePopulation ==
    /\ arg.fn = "placeName"
    /\ \E r \in RandomIndex :
          ret' = [fn |-> "estimatePopulation", value |-> estimatePopulation(arg.placeName, r)]
    /\ UNCHANGED <<appVars, arg>>

NextResponder == CallGenerateAIResponse \/ CallEstimatePopulation

SpecResponder == InitResponder /\ [][NextResponder]_vars

-----------------------------------------------------------------------------
(* C1 *)

\* C1: for every coordinate and every outcome of the Tsunami draw,
\* calculateResilience(lat, lon) returns a value in the closed range [30, 100].
C1_ResilienceInRange ==
    ret.fn = "calculateResilience" => (ret.value >= 30 /\ ret.value <= 100)

\* calculateResilience has been applied at a coordinate with five hazards
\* (Tsunami drawn, lat > 16), where the score is at its lowest.
C1_Witness ==
    /\ ret.fn = "calculateResilience"
    /\ arg.lat > Deg(16, 0)
    /\ arg.lon > Deg(121, 0) /\ arg.lon < Deg(126, 0)
    /\ ret.value = 40

-----------------------------------------------------------------------------
(* C2 *)

HazardNames(h) == [i \in DOMAIN h |-> h[i].name]
IndexOf(h, n) == {i \in DOMAIN h : h[i].name = n}
LandslideZone(lat) == lat > Deg(16, 0) \/ (lat > Deg(6, 0) /\ lat < Deg(10, 0))

\* C2: identifyHazards returns a sequence whose first three entries are
\* Earthquake, Typhoon, Flooding in that order, each exactly once and each with
\* a level in {low, moderate, high}; Tsunami, when present, comes next and has
\* level moderate; Landslide, when present, is last with level moderate and is
\* present exactly when lat > 16 or 6 < lat < 10.
C2_HazardOrder ==
    ret.fn = "identifyHazards" =>
        LET h == ret.value
        IN  /\ Len(h) >= 3
            /\ SubSeq(HazardNames(h), 1, 3) = <<"Earthquake", "Typhoon", "Flooding">>
            /\ \A n \in {"Earthquake", "Typhoon", "Flooding"} : Cardinality(IndexOf(h, n)) = 1
            /\ \A i \in 1..3 : h[i].level \in {"low", "moderate", "high"}
            /\ \A i \in DOMAIN h : h[i].name \in {"Earthquake", "Typhoon", "Flooding", "Tsunami", "Landslide"}
            /\ \A i \in IndexOf(h, "Tsunami") : i = 4 /\ h[i].level = "moderate"
            /\ \A i \in IndexOf(h, "Landslide") : i = Len(h) /\ h[i].level = "moderate"
            /\ Cardinality(IndexOf(h, "Tsunami")) <= 1
            /\ Cardinality(IndexOf(h, "Landslide")) <= 1
            /\ (IndexOf(h, "Landslide") # {}) <=> LandslideZone(arg.lat)

\* identifyHazards has returned all five hazards, Tsunami before Landslide.
C2_Witness ==
    /\ ret.fn = "identifyHazards"
    /\ HazardNames(ret.value) = <<"Earthquake", "Typhoon", "Flooding", "Tsunami", "Landslide">>

-----------------------------------------------------------------------------
(* C3 *)

AtManila == arg.fn = "coordinate" /\ arg.lat = Deg(14, 5995) /\ arg.lon = Deg(120, 9842)

\* C3 as stated: at lat=14.5995, lon=120.9842 identifyHazards yields
\* Earthquake=high, Typhoon=high, Flooding=moderate, and calculateResilience
\* never exceeds 50.
C3_Original ==
    AtManila =>
        /\ ret.fn = "identifyHazards" =>
              /\ ret.value[1] = Hazard("Earthquake", "high")
              /\ ret.value[2] = Hazard("Typhoon", "high")
              /\ ret.value[3] = Hazard("Flooding", "moderate")
        /\ ret.fn = "calculateResilience" => ret.value <= 50

\* C3 amended: at lat=14.5995, lon=120.9842 (longitude below 121) identifyHazards
\* yields Earthquake=high, Typhoon=moderate, Flooding=moderate and no Landslide,
\* so the score is 60 before Tsunami and calculateResilience returns 60 or 50.
C3_Amended ==
    AtManila =>
        /\ ret.fn = "identifyHazards" =>
              /\ ret.value[1] = Hazard("Earthquake", "high")
              /\ ret.value[2] = Hazard("Typhoon", "moderate")
              /\ ret.value[3] = Hazard("Flooding", "moderate")
              /\ IndexOf(ret.value, "Landslide") = {}
        /\ ret.fn = "calculateResilience" => ret.value \in {50, 60}

\* calculateResilience applied at that coordinate without the Tsunami draw.
C3_Witness == AtManila /\ ret.fn = "calculateResilience" /\ ret.value = 60

-----------------------------------------------------------------------------
(* C4 *)

\* The reply categories in priority order, each with its trigger substrings.
Priority ==
    << [category |-> "population", triggers |-> {s_population, s_people, s_ppl}],
       [category |-> "hazard", triggers |-> {s_hazard, s_risk, s_danger, s_safe}],
       [category |-> "solution", triggers |-> {s_solution, s_fix, s_improve, s_help}],
       [category |-> "weather", triggers |-> {s_weather, s_forecast, s_rain, s_typhoon}],
       [category |-> "volcano", triggers |-> {s_volcano, s_eruption, s_mayon, s_taal}],
       [category |-> "earthquake", triggers |-> {s_earthquake, s_seismic, s_quake}] >>

Triggered(message) ==
    {i \in DOMAIN Priority : \E t \in Priority[i].triggers : includes(toLowerCase(message), t)}

FirstMatch(message) ==
    IF Triggered(message) = {} THEN "default"
    ELSE Priority[CHOOSE i \in Triggered(message) : \A j \in Triggered(message) : i <= j].category

CategoryOf(reply) ==
    CASE reply.template \in {"population", "population: click a location first"} -> "population"
      [] reply.template \in {"hazards", "hazards: select a location"} -> "hazard"
      [] reply.template \in {"solutions", "solutions: select a location"} -> "solution"
      [] OTHER -> reply.template

\* C4: the reply category generateAIResponse selects is the earliest, in the
\* order population, hazard/risk, solution/help, weather, volcano, earthquake,
\* default, whose trigger substring the lower-cased message contains; a message
\* with both a population and a hazard keyword gets the population reply, with
\* or without a current location.
C4_FirstMatchWins ==
    ret.fn = "generateAIResponse" =>
        /\ CategoryOf(ret.value) = FirstMatch(arg.userMessage)
        /\ ({1, 2} \subseteq Triggered(arg.userMessage) => CategoryOf(ret.value) = "population")

\* A message with a hazard keyword before a population keyword, asked with a
\* location selected, has been answered from the population branch.
C4_Witness ==
    /\ ret.fn = "generateAIResponse"
    /\ arg.userMessage = s_risk \o <<" ">> \o w_Population
    /\ arg.currentLocation # Null
    /\ ret.value.template = "population"

-----------------------------------------------------------------------------
(* C7 *)

FixedCities == {s_metro_manila, s_manila, s_quezon_city, s_cebu, s_davao, s_camarines}

\* C7: estimatePopulation("Metro Manila") is "~13.5M" whatever the random draw;
\* so is the result for every name containing "manila" in any letter case; and
\* a random bucket is returned only when no fixed city substring matches.
C7_ManilaFixed ==
    ret.fn = "estimatePopulation" =>
        /\ arg.placeName = n_Metro_Manila => ret.value = "~13.5M"
        /\ (arg.placeName # NullStr /\ includes(toLowerCase(arg.placeName), s_manila))
              => ret.value = "~13.5M"
        /\ (\E i \in DOMAIN estimates : ret.value = estimates[i])
              => /\ arg.placeName # NullStr
                 /\ \A c \in FixedCities : ~includes(toLowerCase(arg.placeName), c)

\* estimatePopulation("Metro Manila") has returned.
C7_Witness ==
    /\ ret.fn = "estimatePopulation"
    /\ arg.placeName = n_Metro_Manila
    /\ ret.value = "~13.5M"

-----------------------------------------------------------------------------
(* C5 *)

IsPrefix(p, q) == Len(p) <= Len(q) /\ SubSeq(q, 1, Len(p)) = p

\* C5: across chat sends (panel or modal), image uploads, their delayed
\* callbacks and modal open/close, chatMessages changes only by one entry
\* appended at its end; the entries already there stay as and where they are.
C5_AppendOnly ==
    [][ /\ IsPrefix(chatMessages, chatMessages')
        /\ Len(chatMessages') <= Len(chatMessages) + 1 ]_vars

\* A send made in the modal, then the reply A and an image analysis B appended
\* in that order after the modal was closed again.
C5_Witness ==
    /\ Len(chatMessages) = 3
    /\ chatMessages[1].type = "user"
    /\ chatMessages[2].type = "ai"
    /\ chatMessages[3] = Entry("ai", [template |-> "image analysis"])
    /\ last.op = "closeFullScreenChat"

-----------------------------------------------------------------------------
(* C6 *)

IsBlank(s) == \A i \in DOMAIN s : s[i] \in {" ", "\t", "\n"}

\* C6: a step of sendChatMessage whose input is empty or only whitespace leaves
\* chatMessages (and both message containers) unchanged and queues no reply:
\* generateAIResponse is not invoked.
C6_BlankInputIgnored ==
    [][ (last'.op = "sendChatMessage" /\ IsBlank(last'.input))
            => /\ chatMessages' = chatMessages
               /\ chatDom' = chatDom
               /\ modalDom' = modalDom
               /\ microtasks' = microtasks ]_vars

\* sendChatMessage has just run on a whitespace-only input, after an earlier
\* exchange, and the log still holds only that exchange.
C6_Witness ==
    /\ last = Ran("sendChatMessage", m_blank)
    /\ Len(chatMessages) = 2
    /\ microtasks = <<>>

-----------------------------------------------------------------------------
(* C8, C9, C10: selections and their responses, read off the history.       *)

LogIndex(kinds) == {i \in DOMAIN log : log[i].ev \in kinds}
Latest(S) == CHOOSE i \in S : \A j \in S : j <= i

IsFound(e) ==
    e.ev = "searchResponse" /\ e.outcome.kind = "json" /\ Len(e.outcome.results) > 0
IsSelection(e) == e.ev = "click" \/ IsFound(e)

\* What a selection writes into currentLocation.
Written(e) ==
    IF e.ev = "click" THEN Location(e.lat, e.lon, NullStr)
    ELSE LET first == e.outcome.results[1]
         IN  Location(parseFloat(first.lat), parseFloat(first.lon), first.display_name)

PanelShows(loc) ==
    /\ infoPanel.kind = "analysis"
    /\ infoPanel.report.name = loc.placeName
    /\ infoPanel.report.coordinates = [lat |-> toFixed4(loc.lat), lon |-> toFixed4(loc.lon)]

\* C8: a search issued while another is outstanding cancels nothing (a search
\* leaves the set of outstanding requests only when its own response is
\* processed), the responses are processed in either order, and after a
\* successful search response, until the next click or reverse-geocoding
\* response, currentLocation and the info panel hold that response's first
\* result: the response processed later wins whatever the issue order.
C8_LaterResponseWins ==
    /\ [](LET touched == LogIndex({"click", "searchResponse", "reverseResponse"})
              found == {i \in touched : IsFound(log[i])}
          IN  (found # {} /\ \A i \in touched : i > Latest(found) => log[i].ev = "searchResponse")
                  => /\ currentLocation = Written(log[Latest(found)])
                     /\ PanelShows(Written(log[Latest(found)])))
    /\ [][\A req \in inflight :
             (req.kind = "search" /\ req \notin inflight')
                 => /\ Len(log') = Len(log) + 1
                    /\ log'[Len(log')].ev = "searchResponse"
                    /\ log'[Len(log')].id = req.id]_vars

\* Two searches were outstanding together, the second answered first with one
\* place, the first answered later with another, which is the one shown.
C8_Witness ==
    /\ Len(log) = 4
    /\ log[1] = [ev |-> "search", id |-> 1]
    /\ log[2] = [ev |-> "search", id |-> 2]
    /\ IsFound(log[3]) /\ log[3].id = 2
    /\ IsFound(log[4]) /\ log[4].id = 1
    /\ Written(log[3]) # Written(log[4])
    /\ currentLocation = Written(log[4])
    /\ PanelShows(Written(log[4]))

\* The request that issued a selection: the click itself, or the search answered.
SelectionIds == {log[i].id : i \in {j \in DOMAIN log : IsSelection(log[j])}}
SelectionOf(id) == log[CHOOSE i \in DOMAIN log : IsSelection(log[i]) /\ log[i].id = id]
NewestId(S) == CHOOSE i \in S : \A j \in S : j <= i

\* C9 as stated: currentLocation is null exactly until the first click or
\* successful search, and whenever no request is outstanding it holds the
\* coordinates of the most recently issued click or successful search.
C9_Original ==
    /\ (currentLocation = Null) <=> (SelectionIds = {})
    /\ (inflight = {} /\ SelectionIds # {})
          => LET w == Written(SelectionOf(NewestId(SelectionIds)))
             IN  currentLocation.lat = w.lat /\ currentLocation.lon = w.lon

\* C9 amended: currentLocation is null exactly until the first click or
\* successful search, and from then on it is the value written last, whole: a
\* click writes its coordinates (and no place name) when it happens, a search
\* writes its first result when its response is processed, so the response of
\* a search issued before a newer click or search overwrites that selection.
C9_LastWriterWins ==
    /\ (currentLocation = Null) <=> (SelectionIds = {})
    /\ SelectionIds # {}
          => currentLocation = Written(log[Latest({i \in DOMAIN log : IsSelection(log[i])})])

\* A search was issued, then a click; the click's response came first and the
\* search's last: nothing is outstanding and the older search is current.
C9_Witness ==
    /\ inflight = {}
    /\ Len(log) = 4
    /\ log[1].ev = "search" /\ log[2].ev = "click"
    /\ log[3].ev = "reverseResponse"
    /\ IsFound(log[4])
    /\ currentLocation = Written(log[4])

\* C10: a search whose geocoding call throws or answers with an empty list
\* ends there: no request is issued again, one message is shown (the not-found
\* message differing from the error message), currentLocation, the markers,
\* the panel and chatMessages stay as they are, and the loading overlay is off.
C10_FailedSearchIsLocal ==
    [][ (/\ Len(log') = Len(log) + 1
         /\ log'[Len(log')].ev = "searchResponse"
         /\ ~IsFound(log'[Len(log')]))
            => LET e == log'[Len(log')]
               IN  /\ currentLocation' = currentLocation
                   /\ markers' = markers
                   /\ infoPanel' = infoPanel
                   /\ chatMessages' = chatMessages
                   /\ loadingOverlay' = FALSE
                   /\ alerts' = Append(alerts, IF e.outcome.kind = "throws"
                                               THEN SearchErrorAlert ELSE NotFoundAlert)
                   /\ NotFoundAlert # SearchErrorAlert
                   /\ nextId' = nextId
                   /\ inflight' \subseteq inflight
                   /\ Cardinality(inflight') = Cardinality(inflight) - 1 ]_vars

\* A search failed with an error, another found nothing, and the selection
\* made before them is still current; then a later search was issued.
C10_Witness ==
    /\ alerts = <<SearchErrorAlert>>
    /\ Len(log) = 4
    /\ log[2].ev = "searchResponse" /\ log[2].outcome.kind = "throws"
    /\ IsFound(log[4])
    /\ currentLocation = Written(log[4])
    /\ loadingOverlay = FALSE

-----------------------------------------------------------------------------
(* C11 *)

\* The scorer of the specification applied to a given hazard list.
ScoreOf(hazards) ==
    LET high == Cardinality({i \in DOMAIN hazards : hazards[i].level = "high"})
        moderate == Cardinality({i \in DOMAIN hazards : hazards[i].level = "moderate"})
        raw == 100 - 20 * high - 10 * moderate
    IN  IF raw < 30 THEN 30 ELSE IF raw > 100 THEN 100 ELSE raw

\* C11: in every report of analyzeLocation the resilience score is the clamped
\* penalty sum over the hazard list of that same report.
C11_ScoreMatchesReport ==
    ret.fn = "analyzeLocation" => ret.value.resilience = ScoreOf(ret.value.hazards)

\* The report of analyzeLocation(14.5995, 120.9842, "Metro Manila") whose list
\* drew the Tsunami and whose score did not: four hazards listed, scored as three.
C11_Witness ==
    /\ ret.fn = "analyzeLocation"
    /\ arg.lat = Deg(14, 5995) /\ arg.lon = Deg(120, 9842)
    /\ Len(ret.value.hazards) = 4
    /\ ScoreOf(ret.value.hazards) = 50
    /\ ret.value.resilience = 60

-----------------------------------------------------------------------------
(* C12 *)

IsReplyTo(entry, user) ==
    /\ entry.type = "ai"
    /\ CategoryOf(entry.content) = FirstMatch(user.content.text)

\* C12: every user entry of chatMessages is immediately followed by the reply
\* generated for its message, or is the last entry with that reply the one
\* continuation waiting to run; and while a user entry is last, the only step
\* taken is the one appending that reply: no send, upload, reader or timer
\* callback, and no modal toggle, is handled in between.
C12_ReplyFollowsMessage ==
    /\ [](\A i \in DOMAIN chatMessages :
             chatMessages[i].type = "user" =>
                 IF i = Len(chatMessages)
                 THEN Len(microtasks) = 1
                 ELSE IsReplyTo(chatMessages[i + 1], chatMessages[i]))
    /\ [][(chatMessages # <<>> /\ chatMessages[Len(chatMessages)].type = "user")
            => /\ Len(chatMessages') = Len(chatMessages) + 1
               /\ SubSeq(chatMessages', 1, Len(chatMessages)) = chatMessages
               /\ IsReplyTo(chatMessages'[Len(chatMessages')], chatMessages[Len(chatMessages)])
               /\ timers' = timers
               /\ readers' = readers
               /\ modalActive' = modalActive]_vars

\* A message was sent and answered while an image analysis was waiting on its
\* timer; the analysis then came after the reply.
C12_Witness ==
    /\ Len(chatMessages) = 3
    /\ chatMessages[1].type = "user"
    /\ IsReplyTo(chatMessages[2], chatMessages[1])
    /\ chatMessages[3] = Entry("ai", [template |-> "image analysis"])
    /\ FirstMatch(chatMessages[1].content.text) = "population"

-----------------------------------------------------------------------------
(* C13 *)

LatestSelection == log[Latest({i \in DOMAIN log : IsSelection(log[i])})]

\* C13: while a map click is the current selection, currentLocation.placeName
\* stays absent, also once the click's reverse-geocoding response has been
\* processed, and a population reply generated then names 'this area' with the
\* estimate 'Unknown'; while a successful search is the current selection,
\* currentLocation.placeName is the display name of its first result and the
\* population reply names it.
C13_ClickNameStaysLocal ==
    /\ [](SelectionIds # {} =>
             IF LatestSelection.ev = "click"
             THEN currentLocation.placeName = NullStr
             ELSE currentLocation.placeName = LatestSelection.outcome.results[1].display_name)
    /\ [][(/\ SelectionIds # {}
           /\ Len(chatMessages') = Len(chatMessages) + 1
           /\ chatMessages'[Len(chatMessages')].type = "ai"
           /\ FirstMatch(chatMessages[Len(chatMessages)].content.text) = "population")
             => LET reply == chatMessages'[Len(chatMessages')].content
                IN  /\ reply.template = "population"
                    /\ IF LatestSelection.ev = "click"
                       THEN reply.place = s_this_area /\ reply.estimate = "Unknown"
                       ELSE reply.place = LatestSelection.outcome.results[1].display_name]_vars

\* A click whose reverse geocoding answered 'Davao City', shown in the panel,
\* followed by a population question answered for 'this area' with 'Unknown'.
C13_Witness ==
    /\ Len(log) = 2
    /\ log[1].ev = "click"
    /\ log[2].ev = "reverseResponse" /\ log[2].outcome = [kind |-> "json", display_name |-> n_Davao_City]
    /\ infoPanel.kind = "analysis" /\ infoPanel.report.name = n_Davao_City
    /\ Len(chatMessages) = 2
    /\ chatMessages[2].content =
          [template |-> "population", place |-> s_this_area, estimate |-> "Unknown"]

-----------------------------------------------------------------------------
(* C14 *)

PanelCoordinates(lat, lon) == [lat |-> toFixed4(lat), lon |-> toFixed4(lon)]

\* C14: whenever no geocoding request is outstanding and the info panel shows
\* an analysis, it is the analysis of the location held in currentLocation,
\* and when the current selection is a click the marker list holds exactly the
\* marker of that location.
C14_PanelMatchesCurrent ==
    (inflight = {} /\ SelectionIds # {} /\ infoPanel.kind = "analysis")
        => /\ infoPanel.report.coordinates =
                 PanelCoordinates(currentLocation.lat, currentLocation.lon)
           /\ LatestSelection.ev = "click"
                 => markers = <<Marker(currentLocation.lat, currentLocation.lon, NullStr)>>

\* Two clicks at different points, the second answered first: with nothing
\* outstanding the panel analyses the first point, while currentLocation and
\* the marker are at the second.
C14_Witness ==
    /\ inflight = {}
    /\ Len(log) = 4
    /\ log[1].ev = "click" /\ log[2].ev = "click"
    /\ log[3].ev = "reverseResponse" /\ log[3].id = log[2].id
    /\ log[4].ev = "reverseResponse" /\ log[4].id = log[1].id
    /\ infoPanel.kind = "analysis"
    /\ infoPanel.report.coordinates = PanelCoordinates(log[1].lat, log[1].lon)
    /\ currentLocation = Location(log[2].lat, log[2].lon, NullStr)
    /\ markers = <<Marker(log[2].lat, log[2].lon, NullStr)>>
    /\ PanelCoordinates(log[1].lat, log[1].lon) # PanelCoordinates(log[2].lat, log[2].lon)

-----------------------------------------------------------------------------
(* C15 *)

\* The penalty sum before the clamp, over a given hazard list.
RawScoreOf(hazards) ==
    100 - 20 * Cardinality({i \in DOMAIN hazards : hazards[i].level = "high"})
        - 10 * Cardinality({i \in DOMAIN hazards : hazards[i].level = "moderate"})

\* C15: for every coordinate and every draw the unclamped score of the hazard
\* list is one of 40, 50, 60, 70, 80, so calculateResilience returns it
\* unchanged: never below 40, never above 80, the clamp never active.
C15_ClampNeverActive ==
    /\ ret.fn = "identifyHazards" => RawScoreOf(ret.value) \in {40, 50, 60, 70, 80}
    /\ ret.fn = "calculateResilience" => ret.value \in {40, 50, 60, 70, 80}
    /\ ret.fn = "analyzeLocation" => ret.value.resilience \in {40, 50, 60, 70, 80}

\* The lowest score: a coordinate in both the earthquake and the landslide
\* band and in the typhoon belt, with the Tsunami drawn.
C15_Witness ==
    /\ ret.fn = "calculateResilience"
    /\ ret.value = 40
    /\ arg.lat > Deg(8, 3157) /\ arg.lat < Deg(10, 0)
    /\ arg.lon > Deg(121, 0) /\ arg.lon < Deg(126, 0)

====
